---- MODULE Spec2Model ----
(***************************************************************************)
(* The event-routing and actor-orchestration core of the VRRB node:        *)
(*   - Node::start / Node::wait            (crates/node/src/node.rs)       *)
(*   - BroadcastModule's Handler           (runtime/broadcast_module.rs)   *)
(*   - the EventRouter and the modules' run loops, whose code lives in     *)
(*     crates other than node and cli (vrrb_core, theater, and             *)
(*     runtime::setup_runtime_components); they follow sections 4.1 and    *)
(*     4.2 of the specification.                                           *)
(***************************************************************************)
EXTENDS Integers, Sequences, FiniteSets, TLC

\* ------------------------------------------------------------------ bounds
\* At most this many modules are enabled by the configuration.
MaxEnabled == 2
\* At most this many events are published by the modules of a node.
MaxPublish == 1
\* At most this many events are published by the router harness.
MaxHarnessPublish == 3
\* At most this many events are given to the module of the handler harness.
MaxHandled == 3

\* --------------------------------------------------------------- data model
Topics == {"Control", "State", "Network", "Consensus", "Storage"}

EventKinds == {"Stop", "Other"}

\* Node::setup_event_routing_system: the capacity each topic is declared with.
Capacity(t) ==
    CASE t = "Control" -> 1
      [] t = "State" -> 1
      [] t = "Network" -> 100
      [] t = "Consensus" -> 100
      [] t = "Storage" -> 100

\* The module slots of Node (its Option<JoinHandle<Result<()>>> fields).
Modules == {"mempool", "state", "gossip", "broadcast_controller",
            "txn_validator", "miner", "jsonrpc_server", "http_server"}

\* Node::start, the subscriptions in the order they are made and the module
\* whose receiver each one is.
SubscribeOrder ==
    << [name |-> "mempool",              topic |-> "Storage"],
       [name |-> "state",                topic |-> "Storage"],
       [name |-> "gossip",               topic |-> "Network"],
       [name |-> "broadcast_controller", topic |-> "Network"],
       [name |-> "txn_validator",        topic |-> "Consensus"],
       [name |-> "miner",                topic |-> "Consensus"],
       [name |-> "jsonrpc_server",       topic |-> "Control"],
       [name |-> "http_server",          topic |-> "Control"] >>

\* JoinOrder with the mining module awaited before the state module (a
\* faulty variant of JoinOrder).
JoinOrder_MinerFirst ==
    << "miner", "state", "gossip", "txn_validator", "jsonrpc_server", "http_server" >>

\* Node::wait, the handles it awaits, in the order it awaits them.
JoinOrder ==
    << "state", "miner", "gossip", "txn_validator", "jsonrpc_server", "http_server" >>

\* Subscribers of the stand-alone router harness (RouterSpec).
HarnessSubs == {"s1", "s2"}

Subscribers == Modules \cup HarnessSubs

NoEvent == [kind |-> "None", id |-> 0]

VARIABLES
    npc,             \* where the Orchestrator is in Node::start / Node::wait
    running_status,  \* Node.running_status ("None" while no Node exists)
    result,          \* what start / wait returned
    jidx,            \* index in JoinOrder of the handle wait is at
    enabled,         \* the modules the bootstrapper spawns (handle is Some)
    fate,            \* how each module's task ends up: "ok", "err", "panic"
    topics,          \* topics declared on the router (add_topic)
    subs,            \* subscriptions, in registration order
    queue,           \* per subscriber: its bounded queue
    open,            \* subscribers whose receiving endpoint is alive
    events_rx,       \* the router's unbounded inbound stream
    senders,         \* who holds a clone of events_tx
    rpc,             \* router task: "unspawned", "recv", "fanout", "done"
    rcur,            \* the directed event the router is fanning out
    ridx,            \* next index in subs the fan-out looks at
    mpc,             \* per module: "absent", "recv", "handle", "done"
    mstatus,         \* per module: its ActorState
    mcur,            \* per module: the event it is handling
    outcome,         \* per module: what its task completed with
    ident,           \* per module: its id and its resolved local address
    control_rx,      \* the control-signal channel's content
    ctrl_tx,         \* "held", "sent", "dropped": the caller's control sender
    run_result,      \* what run_blocking returned: "none", "ok", "err"
    published,       \* history: per topic, the events sent on events_tx
    dispatched,      \* history: the directed events the router took
    received,        \* history: per subscriber, the events it received
    handled,         \* history: per module, the events its handler saw
    returned,        \* history: per module, each call of handle: the event,
                     \* the status at the call, the ActorState returned
    endedEarly,      \* history: the modules whose task ended before wait
                     \* had received the stop signal
    subscribedAt,    \* history: per subscriber, how many events had been
                     \* dispatched (d) and published on its topic (p) when it subscribed
    joinLog,         \* history: the module joins wait has resolved, in order
    npub,            \* history: how many events modules / the harness published
    nextId           \* next event identity

vars == << npc, running_status, result, jidx, enabled, fate, topics,
           subs, queue, open, events_rx, senders, rpc, rcur, ridx, mpc, mstatus,
           mcur, outcome, ident, control_rx, ctrl_tx, run_result, published, dispatched,
           received, handled, returned, endedEarly, subscribedAt, joinLog, npub, nextId >>

nodeVars == << npc, running_status, result, jidx >>
configVars == << enabled, fate >>
routerVars == << rpc, rcur, ridx >>
moduleVars == << mpc, mstatus, mcur, outcome, ident >>
controlVars == << control_rx, ctrl_tx, run_result >>
busVars == << topics, subs, queue, open, events_rx, senders >>
historyVars == << published, dispatched, received, handled, returned, endedEarly, subscribedAt,
                 joinLog, npub, nextId >>

\* ------------------------------------------------------------------ helpers
Ev(kind, id) == [kind |-> kind, id |-> id]

Directed(t, e) == [topic |-> t, event |-> e]

Res(kind, of) == [kind |-> kind, of |-> of]

\* Send that puts the message ahead of those waiting (a faulty variant of Send).
Send_Front(stream, msg) == << msg >> \o stream

\* UnboundedSender::send on the channel made by unbounded_channel(): the
\* message is appended to the stream at once, the sender never waits.
Send(stream, msg) == Append(stream, msg)

\* ActorState (theater), the values a module's status takes.
ActorStates == {"Starting", "Running", "Terminating", "Stopped"}

\* The local addresses the broadcast engine's socket may resolve to.
LocalAddrs == {"127.0.0.1:4001", "127.0.0.1:4002"}

\* The address the modules of a node are bound to.
NodeAddr == "127.0.0.1:4001"

NoIdent == [id |-> "none", addr |-> "none"]

\* BroadcastModule::new: the fields a module is built with; the module's
\* name stands for its fresh Uuid.
new(m, addr) == [id |-> m, addr |-> addr, status |-> "Stopped"]

\* BroadcastModule::name, and Handler::label which returns it.
ModuleName(self) == "BroadcastModule"

label(self) == ModuleName(self)

\* handle that carries on after Stop (a faulty variant of handle).
handle_IgnoresStop(status, event) == "Running"

\* handle that stops only a module that is Running (a faulty variant of
\* handle).
handle_StopsOnlyWhenRunning(status, event) ==
    IF event.kind = "Stop" /\ status = "Running" THEN "Terminating" ELSE "Running"

\* BroadcastModule::handle, what it returns for an event when the module's
\* status is `status`.
handle(status, event) == IF event.kind = "Stop" THEN "Terminating" ELSE "Running"

\* Emits that announces the shutdown on the Network topic (a faulty variant
\* of Emits).
Emits_OnStop(event) ==
    IF event.kind = "Stop"
    THEN << [topic |-> "Network", event |-> [kind |-> "Other", id |-> event.id]] >>
    ELSE << >>

\* BroadcastModule::handle, what it sends on self.events_tx while it handles
\* an event: nothing, whatever the event.
Emits(event) == << >>

SubNames == {subs[i].name : i \in 1..Len(subs)}

SubIndex(s) == CHOOSE i \in 1..Len(subs) : subs[i].name = s

TopicOf(s) == subs[SubIndex(s)].topic

\* The events of a stream of directed events that are on topic t, in order.
RECURSIVE OnTopic(_, _)
OnTopic(stream, t) ==
    IF stream = << >> THEN << >>
    ELSE IF Head(stream).topic = t
         THEN << Head(stream).event >> \o OnTopic(Tail(stream), t)
         ELSE OnTopic(Tail(stream), t)

IsPrefix(a, b) == Len(a) <= Len(b) /\ SubSeq(b, 1, Len(a)) = a

\* ------------------------------------------------------------------- Init
Fates == {"ok", "err", "panic"}

InitCommon ==
    /\ running_status = "None"
    /\ result = Res("none", "none")
    /\ jidx = 1
    /\ topics = {}
    /\ subs = << >>
    /\ queue = [s \in Subscribers |-> << >>]
    /\ open = {}
    /\ events_rx = << >>
    /\ senders = {}
    /\ rpc = "unspawned"
    /\ rcur = Directed("Control", NoEvent)
    /\ ridx = 1
    /\ mpc = [m \in Modules |-> "absent"]
    /\ mstatus = [m \in Modules |-> "None"]
    /\ mcur = [m \in Modules |-> NoEvent]
    /\ outcome = [m \in Modules |-> "none"]
    /\ ident = [m \in Modules |-> NoIdent]
    /\ control_rx = << >>
    /\ ctrl_tx = "held"
    /\ run_result = "none"
    /\ published = [t \in Topics |-> << >>]
    /\ dispatched = << >>
    /\ received = [s \in Subscribers |-> << >>]
    /\ handled = [m \in Modules |-> << >>]
    /\ returned = [m \in Modules |-> << >>]
    /\ endedEarly = {}
    /\ subscribedAt = [s \in Subscribers |-> [d |-> 0, p |-> 0]]
    /\ joinLog = << >>
    /\ npub = 0
    /\ nextId = 1

\* The state in which run_blocking calls Node::start: the control channel
\* exists, the configuration says which modules are enabled.
Init ==
    /\ npc = "start"
    /\ enabled \in {E \in SUBSET Modules : Cardinality(E) <= MaxEnabled}
    /\ fate \in {f \in [Modules -> Fates] : \A m \in Modules \ enabled : f[m] = "ok"}
    /\ InitCommon

\* ------------------------------------------------------ EventRouter (4.1)
\* EventRouter::subscribe: the queue a new subscription starts with.
NewQueue(t) == << >>

\* EventRouter::subscribe: a new bounded queue bound to the topic; its
\* consuming end goes to the caller.
Subscribe(name, t) ==
    /\ subs' = Append(subs, [name |-> name, topic |-> t])
    /\ queue' = [queue EXCEPT ![name] = NewQueue(t)]
    /\ open' = open \cup {name}
    /\ subscribedAt' = [subscribedAt EXCEPT
                         ![name] = [d |-> Len(dispatched), p |-> Len(published[t])]]

\* ------------------------------------------------------------ Node::start
\* StartSetup with the dispatch loop spawned as soon as the router exists,
\* ahead of the subscriptions (a faulty variant of StartSetup).
StartSetup_SpawnsRouter ==
    /\ npc = "start"
    /\ npc' = "start_subscribe"
    /\ topics' = Topics
    /\ senders' = {"node"}
    /\ rpc' = "recv"
    /\ UNCHANGED << running_status, result, jidx, configVars, subs, queue, open,
                    events_rx, rcur, ridx, moduleVars, controlVars, historyVars >>

\* node.rs 82-83: the inbound channel and the router with its five topics.
StartSetup ==
    /\ npc = "start"
    /\ npc' = "start_subscribe"
    /\ topics' = Topics
    /\ senders' = {"node"}
    /\ UNCHANGED << running_status, result, jidx, configVars, subs, queue, open,
                    events_rx, routerVars, moduleVars, controlVars, historyVars >>

\* node.rs 85-92: one subscription per step, in source order; `?` returns
\* the error of a subscription to an undeclared topic, and the receivers
\* obtained so far, locals of start, are dropped with the sender.
StartSubscribe ==
    /\ npc = "start_subscribe"
    /\ LET next == SubscribeOrder[Len(subs) + 1] IN
         IF next.topic \in topics
         THEN /\ Subscribe(next.name, next.topic)
              /\ npc' = IF Len(subs) + 1 = Len(SubscribeOrder)
                        THEN "start_bootstrap" ELSE "start_subscribe"
              /\ UNCHANGED << result, senders >>
         ELSE /\ npc' = "start_failed"
              /\ result' = Res("start_err", "subscribe")
              /\ senders' = {}
              /\ open' = {}
              /\ UNCHANGED << subs, queue, subscribedAt >>
    /\ UNCHANGED << running_status, jidx, configVars, topics, events_rx,
                    routerVars, moduleVars, controlVars, published, dispatched,
                    received, handled, returned, endedEarly, joinLog, npub, nextId >>

\* node.rs 94-116, setup_runtime_components succeeds: every enabled module
\* is spawned with its receiver and a clone of events_tx; the receivers of
\* the modules that are not enabled are dropped.  A module is constructed
\* with status Stopped (BroadcastModule::new, broadcast_module.rs 61).
BootstrapOk ==
    /\ npc = "start_bootstrap"
    /\ npc' = "start_spawn"
    /\ mpc' = [m \in Modules |-> IF m \in enabled THEN "recv" ELSE "absent"]
    /\ mstatus' = [m \in Modules |->
                      IF m \in enabled THEN new(m, NodeAddr).status ELSE "None"]
    /\ ident' = [m \in Modules |->
                    IF m \in enabled
                    THEN [id |-> new(m, NodeAddr).id, addr |-> new(m, NodeAddr).addr]
                    ELSE NoIdent]
    /\ open' = open \cap enabled
    /\ senders' = senders \cup enabled
    /\ UNCHANGED << running_status, result, jidx, configVars, topics, subs, queue,
                    events_rx, routerVars, mcur, outcome, controlVars, historyVars >>

\* OnBootstrapErr with the error swallowed, start going on to spawn the
\* dispatch loop (a faulty variant of OnBootstrapErr).
OnBootstrapErr_Swallowed == "start_spawn"

\* node.rs 94-116, `setup_runtime_components(..).await?`: where start goes
\* when the bootstrapper yields an error: `?` returns it from start.
OnBootstrapErr == "start_failed"

\* node.rs 116, setup_runtime_components fails: `.await?` returns the error,
\* the channel, the router and the receivers are dropped.
BootstrapFails ==
    /\ npc = "start_bootstrap"
    /\ enabled # {}
    /\ npc' = OnBootstrapErr
    /\ result' = Res("start_err", "bootstrap")
    /\ open' = {}
    /\ senders' = {}
    /\ UNCHANGED << running_status, jidx, configVars, topics, subs, queue,
                    events_rx, routerVars, moduleVars, controlVars, historyVars >>

\* node.rs 121-140: the dispatch loop is spawned and the Node is returned,
\* its running_status field set to Stopped.
StartSpawnRouter ==
    /\ npc = "start_spawn"
    /\ npc' = "started"
    /\ rpc' = "recv"
    /\ running_status' = "Stopped"
    /\ result' = Res("start_ok", "none")
    /\ UNCHANGED << jidx, configVars, busVars, rcur, ridx, moduleVars,
                    controlVars, historyVars >>

\* ------------------------------------------------------------- Node::wait
StartPhases == {"start", "start_subscribe", "start_bootstrap", "start_spawn",
                "start_failed"}

\* What wait awaits after the stop signal, in order: the six module handles
\* (node.rs 159-187), then the router's handle (node.rs 189).
AwaitOrder == JoinOrder \o << "event_router" >>

\* A handle is absent when its Option field is None.
Present(h) == h = "event_router" \/ h \in enabled

\* The task behind a handle has completed (its JoinHandle is ready).
Completed(h) == IF h = "event_router" THEN rpc = "done" ELSE outcome[h] # "none"

\* JoinedOk with a single `?`: the task's own Err is not looked at (a faulty
\* variant of JoinedOk).
JoinedOk_SingleTry(h) == IF h = "event_router" THEN rpc = "done" ELSE outcome[h] # "panic"

\* `handle.await??` yields Ok(()): the task neither panicked nor returned Err.
JoinedOk(h) == IF h = "event_router" THEN rpc = "done" ELSE outcome[h] = "ok"

\* wait returns: the fields still in the Node are dropped, its events_tx and
\* control_rx among them; the handles not yet awaited are detached.
Return(r) ==
    /\ npc' = "wait_returned"
    /\ result' = r
    /\ senders' = senders \ {"node"}

\* node.rs 147.
WaitBegin ==
    /\ npc = "started"
    /\ npc' = "wait_recv"
    /\ running_status' = "Running"
    /\ UNCHANGED << result, jidx, configVars, busVars, routerVars, moduleVars,
                    controlVars, historyVars >>

\* node.rs 150-155: an event arrives on the control channel.
WaitRecvSignal ==
    /\ npc = "wait_recv"
    /\ control_rx # << >>
    /\ control_rx' = Tail(control_rx)
    /\ npc' = "wait_publish"
    /\ UNCHANGED << running_status, result, jidx, configVars, busVars, routerVars,
                    moduleVars, ctrl_tx, run_result, historyVars >>

\* WaitRecvClosed with the closed channel taken for a stop request, wait
\* going on to publish Stop (a faulty variant of WaitRecvClosed).
WaitRecvClosed_TakenAsStop ==
    /\ npc = "wait_recv"
    /\ control_rx = << >>
    /\ ctrl_tx = "dropped"
    /\ npc' = "wait_publish"
    /\ UNCHANGED << running_status, result, jidx, configVars, busVars, routerVars,
                    moduleVars, controlVars, historyVars >>

\* node.rs 150-153: recv() yields None, every control sender is gone.
WaitRecvClosed ==
    /\ npc = "wait_recv"
    /\ control_rx = << >>
    /\ ctrl_tx = "dropped"
    /\ Return(Res("wait_err", "control"))
    /\ UNCHANGED << running_status, jidx, configVars, topics, subs, queue, open,
                    events_rx, routerVars, moduleVars, controlVars, historyVars >>

\* node.rs 157: (Control, Stop) is sent on events_tx; the send fails only
\* when the receiving end is gone.
WaitPublish ==
    /\ npc = "wait_publish"
    /\ IF rpc = "done"
       THEN /\ Return(Res("wait_err", "send"))
            /\ UNCHANGED << events_rx, published, nextId, jidx >>
       ELSE /\ events_rx' = Send(events_rx, Directed("Control", Ev("Stop", nextId)))
            /\ published' = [published EXCEPT
                               !["Control"] = Append(@, Ev("Stop", nextId))]
            /\ nextId' = nextId + 1
            /\ npc' = "wait_join"
            /\ jidx' = 1
            /\ UNCHANGED << result, senders >>
    /\ UNCHANGED << running_status, configVars, topics, subs, queue, open,
                    routerVars, moduleVars, controlVars, dispatched, received,
                    handled, returned, endedEarly, subscribedAt, joinLog, npub >>

\* node.rs 159-187: `if let Some(handle)` does not match, the slot is skipped.
WaitSkipAbsent ==
    /\ npc = "wait_join"
    /\ ~Present(AwaitOrder[jidx])
    /\ jidx' = jidx + 1
    /\ UNCHANGED << npc, running_status, result, configVars, busVars, routerVars,
                    moduleVars, controlVars, historyVars >>

\* node.rs 159-195: the awaited handle resolves with success; wait moves to
\* the next one, and after the last one (the router's) sets Stopped and
\* returns Ok.
WaitJoinOk ==
    /\ npc = "wait_join"
    /\ Present(AwaitOrder[jidx])
    /\ Completed(AwaitOrder[jidx])
    /\ JoinedOk(AwaitOrder[jidx])
    /\ joinLog' = Append(joinLog, AwaitOrder[jidx])
    /\ IF jidx = Len(AwaitOrder)
       THEN /\ running_status' = "Stopped"
            /\ Return(Res("wait_ok", "none"))
            /\ UNCHANGED jidx
       ELSE /\ jidx' = jidx + 1
            /\ UNCHANGED << npc, running_status, result, senders >>
    /\ UNCHANGED << configVars, topics, subs, queue, open, events_rx, routerVars,
                    moduleVars, controlVars, published, dispatched, received,
                    handled, returned, endedEarly, subscribedAt, npub, nextId >>

\* node.rs 159-187: the awaited task panicked or returned Err; `??` returns
\* that error from wait at once.
WaitJoinErr ==
    /\ npc = "wait_join"
    /\ Present(AwaitOrder[jidx])
    /\ Completed(AwaitOrder[jidx])
    /\ ~JoinedOk(AwaitOrder[jidx])
    /\ joinLog' = Append(joinLog, AwaitOrder[jidx])
    /\ Return(Res("wait_err", AwaitOrder[jidx]))
    /\ UNCHANGED << running_status, jidx, configVars, topics, subs, queue, open,
                    events_rx, routerVars, moduleVars, controlVars, published,
                    dispatched, received, handled, returned, endedEarly, subscribedAt, npub, nextId >>

\* ------------------------------------------------- the caller (run_blocking)
\* run.rs 301-303: the stop request, sent once Node::start has returned.
CallerSendStop ==
    /\ npc \notin StartPhases
    /\ ctrl_tx = "held"
    /\ ctrl_tx' = "sent"
    /\ control_rx' = Send(control_rx, Ev("Stop", 0))
    /\ UNCHANGED << nodeVars, configVars, busVars, routerVars, moduleVars,
                    run_result, historyVars >>

\* run.rs 297-299: waiting for ctrl-c fails, run_blocking returns and its
\* ctrl_tx is dropped with nothing sent.
CallerDrop ==
    /\ npc \notin StartPhases
    /\ ctrl_tx = "held"
    /\ ctrl_tx' = "dropped"
    /\ run_result' = "err"
    /\ UNCHANGED << nodeVars, configVars, busVars, routerVars, moduleVars,
                    control_rx, historyVars >>

\* A caller of Node::start sends an event that is not Stop on the control
\* channel it holds: the channel carries any Event (node.rs 74, run.rs 282).
CallerSendOther ==
    /\ npc \notin StartPhases
    /\ ctrl_tx = "held"
    /\ ctrl_tx' = "sent"
    /\ control_rx' = Send(control_rx, Ev("Other", 0))
    /\ UNCHANGED << nodeVars, configVars, busVars, routerVars, moduleVars,
                    run_result, historyVars >>

\* run.rs 283-285: Node::start returned an error; run_blocking maps it and
\* returns it, its ctrl_tx is dropped.
CallerStartFailed ==
    /\ npc = "start_failed"
    /\ run_result = "none"
    /\ run_result' = "err"
    /\ ctrl_tx' = "dropped"
    /\ UNCHANGED << nodeVars, configVars, busVars, routerVars, moduleVars,
                    control_rx, historyVars >>

\* run.rs 305-311: what run_blocking returns once the node's task has been
\* joined with wait's result r: only a JoinError is mapped and returned by
\* `?`, the Result that wait returned is dropped and Ok(()) is returned.
AfterJoin(r) == "ok"

\* run.rs 305-311: the node's task, which runs wait, has completed and is
\* joined; run_blocking returns.
CallerJoin ==
    /\ ctrl_tx = "sent"
    /\ npc = "wait_returned"
    /\ run_result = "none"
    /\ run_result' = AfterJoin(result)
    /\ UNCHANGED << nodeVars, configVars, busVars, routerVars, moduleVars,
                    control_rx, ctrl_tx, historyVars >>

\* ------------------------------------------- EventRouter::start (4.1)
\* The dispatch loop takes the oldest event of its inbound stream.
Take(stream) == Head(stream)

\* EndsLoop that leaves the loop once a Stop is fanned out (a faulty variant
\* of EndsLoop).
EndsLoop_OnStop(de) == de.event.kind = "Stop"

\* Whether the event just fanned out ends the dispatch loop: none does, Stop
\* is a payload like any other.
EndsLoop(de) == FALSE

\* The inbound stream is closed: every events_tx clone is dropped and
\* nothing is left in it.
StreamClosed == senders = {} /\ events_rx = << >>

\* Targets that takes every live subscriber, whatever its topic (a faulty
\* variant of Targets).
Targets_AnyTopic(i) == {j \in i..Len(subs) : subs[j].name \in open}

\* The subscribers the event in hand still has to be pushed to: those of
\* its topic, from position i on, whose receiving end is alive.
Targets(i) ==
    {j \in i..Len(subs) : subs[j].topic = rcur.topic /\ subs[j].name \in open}

Min(S) == CHOOSE x \in S : \A y \in S : x <= y

\* A subscriber's bounded queue has room for one more event.
HasRoom(s) == Len(queue[s]) < Capacity(TopicOf(s))

RouterRecv ==
    /\ rpc = "recv"
    /\ events_rx # << >>
    /\ rcur' = Take(events_rx)
    /\ events_rx' = Tail(events_rx)
    /\ dispatched' = Append(dispatched, Take(events_rx))
    /\ ridx' = 1
    /\ rpc' = "fanout"
    /\ UNCHANGED << nodeVars, configVars, topics, subs, queue, open, senders,
                    moduleVars, controlVars, published, received, handled, returned, endedEarly,
                    subscribedAt, joinLog, npub, nextId >>

\* A copy goes to the next subscriber of the topic; a full queue suspends
\* the loop here until the subscriber takes an entry.
RouterPush ==
    /\ rpc = "fanout"
    /\ Targets(ridx) # {}
    /\ LET j == Min(Targets(ridx))
           s == subs[j].name
       IN /\ HasRoom(s)
          /\ queue' = [queue EXCEPT ![s] = Append(@, rcur.event)]
          /\ ridx' = j + 1
    /\ UNCHANGED << nodeVars, configVars, topics, subs, open, events_rx, senders,
                    rpc, rcur, moduleVars, controlVars, historyVars >>

\* Every subscriber of the topic has its copy: back to receiving.
RouterNext ==
    /\ rpc = "fanout"
    /\ Targets(ridx) = {}
    /\ rpc' = IF EndsLoop(rcur) THEN "done" ELSE "recv"
    /\ UNCHANGED << nodeVars, configVars, busVars, rcur, ridx, moduleVars,
                    controlVars, historyVars >>

\* recv() yields None on the closed stream: the loop and the task end.
RouterExit ==
    /\ rpc = "recv"
    /\ StreamClosed
    /\ rpc' = "done"
    /\ UNCHANGED << nodeVars, configVars, busVars, rcur, ridx, moduleVars,
                    controlVars, historyVars >>

\* ------------------------------------------- a module's run loop (4.2)
\* The phases of the Orchestrator in which it has not yet received the stop
\* signal while modules are running (node.rs 116-153).
BeforeSignal == {"start_spawn", "started", "wait_recv"}

\* The module's task ends: its receiver and its events_tx clone are dropped.
Ends(m, how) ==
    /\ outcome' = [outcome EXCEPT ![m] = how]
    /\ open' = open \ {m}
    /\ senders' = senders \ {m}
    /\ endedEarly' = IF npc \in BeforeSignal THEN endedEarly \cup {m} ELSE endedEarly

ModuleRecv(m) ==
    /\ mpc[m] = "recv"
    /\ queue[m] # << >>
    /\ mcur' = [mcur EXCEPT ![m] = Head(queue[m])]
    /\ queue' = [queue EXCEPT ![m] = Tail(@)]
    /\ received' = [received EXCEPT ![m] = Append(@, Head(queue[m]))]
    /\ mpc' = [mpc EXCEPT ![m] = "handle"]
    /\ UNCHANGED << nodeVars, configVars, topics, subs, open, events_rx, senders,
                    routerVars, mstatus, outcome, ident, controlVars, published,
                    dispatched, handled, returned, endedEarly, subscribedAt, joinLog, npub, nextId >>

\* handle is called, its result stored with set_status; the loop exits with
\* success once the status is Terminating.
ModuleHandle(m) ==
    /\ mpc[m] = "handle"
    /\ mstatus' = [mstatus EXCEPT ![m] = handle(mstatus[m], mcur[m])]
    /\ handled' = [handled EXCEPT ![m] = Append(@, mcur[m])]
    /\ returned' = [returned EXCEPT
                       ![m] = Append(@, [event |-> mcur[m], was |-> mstatus[m],
                                         ret |-> handle(mstatus[m], mcur[m])])]
    /\ events_rx' = events_rx \o Emits(mcur[m])
    /\ published' = [t \in Topics |-> published[t] \o OnTopic(Emits(mcur[m]), t)]
    /\ IF handle(mstatus[m], mcur[m]) = "Terminating"
       THEN /\ mpc' = [mpc EXCEPT ![m] = "done"]
            /\ Ends(m, "ok")
       ELSE /\ mpc' = [mpc EXCEPT ![m] = "recv"]
            /\ UNCHANGED << outcome, open, senders, endedEarly >>
    /\ UNCHANGED << nodeVars, configVars, topics, subs, queue, routerVars, mcur,
                    ident, controlVars, dispatched, received, subscribedAt,
                    joinLog, npub, nextId >>

\* An internal fault: the task returns Err, or panics, as its fate has it.
ModuleFault(m) ==
    /\ mpc[m] = "recv"
    /\ fate[m] # "ok"
    /\ mpc' = [mpc EXCEPT ![m] = "done"]
    /\ Ends(m, fate[m])
    /\ UNCHANGED << nodeVars, configVars, topics, subs, queue, events_rx,
                    routerVars, mstatus, mcur, ident, controlVars, published,
                    dispatched, received, handled, returned, subscribedAt,
                    joinLog, npub, nextId >>

\* A running module publishes an event of its own on some topic through its
\* clone of events_tx.
ModulePublish(m, t, k) ==
    /\ mpc[m] = "recv"
    /\ npub < MaxPublish
    /\ events_rx' = Send(events_rx, Directed(t, Ev(k, nextId)))
    /\ published' = [published EXCEPT ![t] = Append(@, Ev(k, nextId))]
    /\ npub' = npub + 1
    /\ nextId' = nextId + 1
    /\ UNCHANGED << nodeVars, configVars, topics, subs, queue, open, senders,
                    routerVars, moduleVars, controlVars, dispatched, received,
                    handled, returned, endedEarly, subscribedAt, joinLog >>

\* ------------------------------------------- the router on its own (8)
\* The router driven directly, as a test of its contract drives it: topics
\* declared, then subscriptions, publishes and receives in any order.
HarnessTopics == {"Control", "Network"}

HarnessSetup ==
    /\ npc = "harness"
    /\ npc' = "harness_run"
    /\ topics' = Topics
    /\ senders' = {"harness"}
    /\ UNCHANGED << running_status, result, jidx, configVars, subs, queue, open,
                    events_rx, routerVars, moduleVars, controlVars, historyVars >>

HarnessSubscribe(s, t) ==
    /\ npc = "harness_run"
    /\ s \notin SubNames
    /\ t \in topics
    /\ rpc # "fanout"
    /\ Subscribe(s, t)
    /\ UNCHANGED << nodeVars, configVars, topics, events_rx, senders, routerVars,
                    moduleVars, controlVars, published, dispatched, received,
                    handled, returned, endedEarly, joinLog, npub, nextId >>

HarnessStart ==
    /\ npc = "harness_run"
    /\ rpc = "unspawned"
    /\ rpc' = "recv"
    /\ UNCHANGED << nodeVars, configVars, busVars, rcur, ridx, moduleVars,
                    controlVars, historyVars >>

HarnessPublish(t, k) ==
    /\ "harness" \in senders
    /\ npub < MaxHarnessPublish
    /\ events_rx' = Send(events_rx, Directed(t, Ev(k, nextId)))
    /\ published' = [published EXCEPT ![t] = Append(@, Ev(k, nextId))]
    /\ npub' = npub + 1
    /\ nextId' = nextId + 1
    /\ UNCHANGED << nodeVars, configVars, topics, subs, queue, open, senders,
                    routerVars, moduleVars, controlVars, dispatched, received,
                    handled, returned, endedEarly, subscribedAt, joinLog >>

HarnessRecv(s) ==
    /\ s \in open
    /\ queue[s] # << >>
    /\ queue' = [queue EXCEPT ![s] = Tail(@)]
    /\ received' = [received EXCEPT ![s] = Append(@, Head(queue[s]))]
    /\ UNCHANGED << nodeVars, configVars, topics, subs, open, events_rx, senders,
                    routerVars, moduleVars, controlVars, published, dispatched,
                    handled, returned, endedEarly, subscribedAt, joinLog, npub, nextId >>

HarnessDropSender ==
    /\ "harness" \in senders
    /\ senders' = {}
    /\ UNCHANGED << nodeVars, configVars, topics, subs, queue, open, events_rx,
                    routerVars, moduleVars, controlVars, historyVars >>

\* ------------------------------------------------------ the node, as run
NodeStep ==
    \/ StartSetup
    \/ StartSubscribe
    \/ BootstrapOk
    \/ BootstrapFails
    \/ StartSpawnRouter
    \/ WaitBegin
    \/ WaitRecvSignal
    \/ WaitRecvClosed
    \/ WaitPublish
    \/ WaitSkipAbsent
    \/ WaitJoinOk
    \/ WaitJoinErr

RouterStep == RouterRecv \/ RouterPush \/ RouterNext \/ RouterExit

Next ==
    \/ NodeStep
    \/ RouterStep
    \/ CallerSendStop
    \/ CallerSendOther
    \/ CallerDrop
    \/ CallerStartFailed
    \/ CallerJoin
    \/ \E m \in Modules : ModuleRecv(m)
    \/ \E m \in Modules : ModuleHandle(m)
    \/ \E m \in Modules : ModuleFault(m)
    \/ \E m \in Modules, t \in Topics, k \in EventKinds : ModulePublish(m, t, k)

Spec == Init /\ [][Next]_vars

\* Every task that can run is eventually run by the scheduler; faults, the
\* modules' own publishing and the caller's stop request are not forced.
Fairness ==
    /\ WF_vars(NodeStep)
    /\ WF_vars(RouterStep)
    /\ \A m \in Modules : WF_vars(ModuleRecv(m)) /\ WF_vars(ModuleHandle(m))

FairSpec == Spec /\ Fairness

RouterInit ==
    /\ npc = "harness"
    /\ enabled = {}
    /\ fate = [m \in Modules |-> "ok"]
    /\ InitCommon

RouterNextStep ==
    \/ HarnessSetup
    \/ HarnessStart
    \/ HarnessDropSender
    \/ \E s \in HarnessSubs, t \in HarnessTopics : HarnessSubscribe(s, t)
    \/ \E t \in HarnessTopics, k \in EventKinds : HarnessPublish(t, k)
    \/ \E s \in HarnessSubs : HarnessRecv(s)
    \/ RouterStep

RouterSpec == RouterInit /\ [][RouterNextStep]_vars

\* ------------------------------------- one BroadcastModule on its own
\* The gossip module driven directly: it is built, its owner sets its status
\* and hands it events, and its run loop calls handle on each.
UnderTest == "gossip"

HandlerInit ==
    /\ npc = "handler"
    /\ enabled = {UnderTest}
    /\ fate = [m \in Modules |-> "ok"]
    /\ InitCommon

\* BroadcastModule::new with the socket resolved to addr; the module holds
\* the events_tx it was configured with.
HandlerNew(addr) ==
    /\ npc = "handler"
    /\ mpc[UnderTest] = "absent"
    /\ mpc' = [mpc EXCEPT ![UnderTest] = "recv"]
    /\ mstatus' = [mstatus EXCEPT ![UnderTest] = new(UnderTest, addr).status]
    /\ ident' = [ident EXCEPT ![UnderTest] = [id |-> new(UnderTest, addr).id,
                                              addr |-> new(UnderTest, addr).addr]]
    /\ senders' = {UnderTest}
    /\ open' = {UnderTest}
    /\ UNCHANGED << nodeVars, configVars, topics, subs, queue, events_rx,
                    routerVars, mcur, outcome, controlVars, historyVars >>

\* Handler::set_status, called between two events.
HandlerSetStatus(st) ==
    /\ npc = "handler"
    /\ mpc[UnderTest] = "recv"
    /\ mstatus[UnderTest] # st
    /\ mstatus' = [mstatus EXCEPT ![UnderTest] = st]
    /\ UNCHANGED << nodeVars, configVars, busVars, routerVars, mpc, mcur, outcome,
                    ident, controlVars, historyVars >>

\* An event is put on the module's inbound endpoint.
HandlerDeliver(k) ==
    /\ npc = "handler"
    /\ UnderTest \in open
    /\ npub < MaxHandled
    /\ queue' = [queue EXCEPT ![UnderTest] = Append(@, Ev(k, nextId))]
    /\ npub' = npub + 1
    /\ nextId' = nextId + 1
    /\ UNCHANGED << nodeVars, configVars, topics, subs, open, events_rx, senders,
                    routerVars, moduleVars, controlVars, published, dispatched,
                    received, handled, returned, endedEarly, subscribedAt, joinLog >>

HandlerNext ==
    \/ \E addr \in LocalAddrs : HandlerNew(addr)
    \/ \E st \in ActorStates : HandlerSetStatus(st)
    \/ \E k \in EventKinds : HandlerDeliver(k)
    \/ ModuleRecv(UnderTest)
    \/ ModuleHandle(UnderTest)

HandlerSpec == HandlerInit /\ [][HandlerNext]_vars

\* ================================================================ claims
\* The steps the scheduler is bound to take when they are possible.
FairStep ==
    \/ NodeStep
    \/ RouterStep
    \/ \E m \in Modules : ModuleRecv(m)
    \/ \E m \in Modules : ModuleHandle(m)

\* wait has taken the stop signal and has not returned yet.
ShuttingDown == npc \in {"wait_publish", "wait_join"}

\* wait returned after it had taken a stop signal.
ReturnedAfterSignal == npc = "wait_returned" /\ result.of # "control"

\* C1: on a node with no module enabled, once the stop signal is taken,
\* wait goes on until it returns Ok: it is never left with no step to take
\* before it has returned, and what it returns is Ok.
C1_ZeroModulesWaitReturnsOk ==
    enabled = {} =>
        /\ ShuttingDown => ENABLED (NodeStep \/ RouterStep)
        /\ ReturnedAfterSignal => result.kind = "wait_ok"

\* C2: with modules enabled that all exit with success on Stop, once the
\* stop signal is taken the shutdown goes on until wait returns Ok: no task
\* is left waiting forever, and what wait returns is Ok.
C2_HealthyModulesWaitReturnsOk ==
    (enabled # {} /\ \A m \in enabled : fate[m] = "ok") =>
        /\ ShuttingDown => ENABLED FairStep
        /\ ReturnedAfterSignal => result.kind = "wait_ok"

\* The order in which the modules are to be joined, as declared.
DeclaredOrder ==
    << "state", "miner", "gossip", "txn_validator", "jsonrpc_server", "http_server" >>

Pos(h) == CHOOSE i \in 1..Len(DeclaredOrder) : DeclaredOrder[i] = h

\* The enabled modules that come before handle h in the declared order.
EarlierPresent(h) ==
    {g \in enabled : /\ \E i \in 1..Len(DeclaredOrder) : DeclaredOrder[i] = g
                     /\ (h = "event_router" \/ Pos(g) < Pos(h))}

\* The enabled modules that come after module h in the declared order.
LaterPresent(h) ==
    {g \in enabled : /\ \E i \in 1..Len(DeclaredOrder) : DeclaredOrder[i] = g
                     /\ Pos(h) < Pos(g)}

InLog(h) == \E i \in 1..Len(joinLog) : joinLog[i] = h

\* C3: wait joins the modules one after the other in the declared order: the
\* handle it is awaiting is reached only when every enabled module declared
\* before it has been joined, the joins resolve in that order, and wait
\* does not set Stopped while a module's join is unresolved.
C3_JoinsInDeclaredOrder ==
    /\ npc = "wait_join" =>
           \A g \in EarlierPresent(AwaitOrder[jidx]) : InLog(g)
    /\ \A i, j \in 1..Len(joinLog) :
           (i < j /\ joinLog[j] \in Modules) => Pos(joinLog[i]) < Pos(joinLog[j])
    /\ (npc \in {"wait_recv", "wait_publish", "wait_join", "wait_returned"}
          /\ running_status = "Stopped") =>
           \A g \in EarlierPresent("event_router") : InLog(g)

\* C3, its case: wait is held at an earlier module's join while a module
\* declared later has already completed.
C3_Witness ==
    /\ npc = "wait_join"
    /\ AwaitOrder[jidx] \in enabled
    /\ outcome[AwaitOrder[jidx]] = "none"
    /\ \E g \in LaterPresent(AwaitOrder[jidx]) : outcome[g] # "none"
    /\ running_status # "Stopped"

\* C4: when a module's join yields an error, every enabled module declared
\* after it is still joined before wait returns.
C4_LaterJoinsStillProceed ==
    (npc = "wait_returned" /\ result.kind = "wait_err" /\ result.of \in Modules) =>
        \A g \in LaterPresent(result.of) : InLog(g)

\* C5: a failing join makes wait return an error, that of the first failing
\* module in the declared order; Ok is returned only when every joined
\* module reported success.
C5_FirstErrorIsReturned ==
    /\ \A h \in Modules :
           (InLog(h) /\ outcome[h] # "ok") =>
               (npc = "wait_returned" /\ result = Res("wait_err", h))
    /\ (npc = "wait_returned" /\ result.kind = "wait_err" /\ result.of \in Modules) =>
           /\ outcome[result.of] \in {"err", "panic"}
           /\ \A g \in EarlierPresent(result.of) : outcome[g] = "ok"
    /\ (npc = "wait_returned" /\ result.kind = "wait_ok") =>
           \A g \in EarlierPresent("event_router") : outcome[g] = "ok"

\* C5, its case: wait returned the error of a module that failed, after it
\* had joined an earlier module with success.
C5_Witness ==
    /\ npc = "wait_returned"
    /\ result.kind = "wait_err"
    /\ result.of \in Modules
    /\ EarlierPresent(result.of) # {}

\* What subscriber s has been given so far: what it took and what waits in
\* its queue.
Given(s) == received[s] \o queue[s]

\* The events on s's topic that the router has not yet offered to s: the one
\* in its hand, when s's turn in the fan-out is still to come, and those
\* waiting on the inbound stream.
Pending(s) ==
    (IF rpc = "fanout" /\ rcur.topic = TopicOf(s) /\ SubIndex(s) >= ridx
     THEN << rcur.event >> ELSE << >>)
    \o OnTopic(events_rx, TopicOf(s))

\* The events published on s's topic since s subscribed, in publish order.
PublishedSince(s) ==
    SubSeq(published[TopicOf(s)], subscribedAt[s].p + 1, Len(published[TopicOf(s)]))

\* C6: what a subscriber is given is the sequence of events published on
\* its topic since it subscribed, in publish order, with nothing reordered,
\* duplicated or skipped: it is always a prefix of that sequence, and for a
\* live subscriber the rest of the sequence is still on its way.
C6_FifoPerTopic ==
    \A s \in SubNames :
        /\ IsPrefix(Given(s), PublishedSince(s))
        /\ s \in open => Given(s) \o Pending(s) = PublishedSince(s)

\* C6, its case: a Control subscriber has been given wait's Stop and another
\* Control event.
C6_Witness ==
    \E s \in SubNames :
        /\ TopicOf(s) = "Control"
        /\ Len(Given(s)) >= 2
        /\ \E i \in 1..Len(Given(s)) : Given(s)[i].kind = "Stop"

\* The per-subscriber capacity each topic is to have.
DeclaredCapacity(t) == IF t \in {"Control", "State"} THEN 1 ELSE 100

IsFull(s) == Len(queue[s]) >= DeclaredCapacity(TopicOf(s))

\* The router holds an event for s and s's queue is at capacity.
Blocked(s) ==
    /\ rpc = "fanout"
    /\ Targets(ridx) # {}
    /\ subs[Min(Targets(ridx))].name = s
    /\ IsFull(s)

\* The call that published e has returned.
PublishReturned(e) ==
    \E t \in Topics : \E i \in 1..Len(published[t]) : published[t][i] = e

\* C7: while an event waits for room in a subscriber's full queue, its
\* publisher is suspended in the publish call: the publish completes only
\* after the subscriber has drained an entry and the event has been taken
\* into its queue.
C7_PublisherSuspended ==
    \A s \in SubNames : Blocked(s) => ~PublishReturned(rcur.event)

RECURSIVE SumLen(_, _)
SumLen(f, S) ==
    IF S = {} THEN 0
    ELSE LET t == CHOOSE x \in S : TRUE IN Len(f[t]) + SumLen(f, S \ {t})

\* C9: the dispatch loop has ended only if the inbound stream is closed,
\* every sender dropped and every published event dispatched, Stop events
\* and those after them included; on the closed stream the loop can end.
C9_LoopEndsOnlyOnClosedStream ==
    /\ rpc = "done" =>
           /\ senders = {}
           /\ events_rx = << >>
           /\ Len(dispatched) = SumLen(published, Topics)
    /\ (rpc = "recv" /\ senders = {} /\ events_rx = << >>) => ENABLED RouterExit

\* C9, its case: the loop has ended after it dispatched a Stop and then an
\* event published after it.
C9_Witness ==
    /\ rpc = "done"
    /\ \E i, j \in 1..Len(dispatched) :
           i < j /\ dispatched[i].event.kind = "Stop"

\* C10: a module handles nothing after Stop: Stop is the last event its
\* handler has seen, its status is Terminating and its run loop has exited.
C10_NothingHandledAfterStop ==
    \A m \in Modules : \A i \in 1..Len(handled[m]) :
        handled[m][i].kind = "Stop" =>
            /\ i = Len(handled[m])
            /\ mstatus[m] = "Terminating"
            /\ mpc[m] = "done"

\* C10, its case: a module exited on Stop with an event left in its queue
\* that was enqueued after the Stop.
C10_Witness ==
    \E m \in Modules :
        /\ mpc[m] = "done"
        /\ outcome[m] = "ok"
        /\ queue[m] # << >>

C11_BootstrapFailureAbortsStart ==
    /\ result.of = "bootstrap" =>
           /\ npc = "start_failed"
           /\ result.kind = "start_err"
    /\ npc = "start_failed" =>
           /\ result.kind = "start_err"
           /\ rpc = "unspawned"
           /\ running_status = "None"
           /\ dispatched = << >>
           /\ ~ENABLED (NodeStep \/ RouterStep \/ CallerSendStop \/ CallerDrop)

\* C11, its case: start has returned the bootstrapper's error after every
\* subscription had been registered.
C11_Witness ==
    /\ npc = "start_failed"
    /\ result = Res("start_err", "bootstrap")
    /\ Len(subs) = Len(SubscribeOrder)

\* C12: when start has returned a Node and wait has not been called on it,
\* the node's status is Running.
C12_RunningAfterStart ==
    (npc = "started" /\ result.kind = "start_ok") => running_status = "Running"

\* C15: when wait comes to await the router's task, the Orchestrator has
\* dropped its sender to the router's inbound stream.
C15_SenderDroppedBeforeRouterJoin ==
    (npc = "wait_join" /\ AwaitOrder[jidx] = "event_router") =>
        "node" \notin senders

\* C16: the dispatch loop runs only once every topic is declared and every
\* subscription of start is registered; once it runs no topic is declared
\* and no subscription is made, and nothing is dispatched while a
\* subscription is missing.
C16_SpawnAfterSubscriptions ==
    /\ [](rpc # "unspawned" => (topics = Topics /\ subs = SubscribeOrder))
    /\ [](dispatched # << >> => subs = SubscribeOrder)
    /\ [][rpc # "unspawned" => (topics' = topics /\ subs' = subs)]_vars

\* C16, its case: the dispatch loop has been spawned and has dispatched an
\* event, with the eight subscriptions of start in place.
C16_Witness ==
    /\ rpc # "unspawned"
    /\ Len(subs) = Len(SubscribeOrder)
    /\ dispatched # << >>

\* C17: the node's lifecycle state goes with the phase the Orchestrator is
\* in: Running from start's return until the stop signal is taken,
\* Terminating while Stop is published and the handles are joined, Stopped
\* only once wait has joined every module and the router.  The phases only
\* advance, so the state never moves backwards.
C17_LifecycleFollowsPhases ==
    /\ running_status = "Stopped" =>
           (npc = "wait_returned" /\ result.kind = "wait_ok")
    /\ npc \in {"started", "wait_recv"} => running_status = "Running"
    /\ npc \in {"wait_publish", "wait_join"} => running_status = "Terminating"

\* C18: whatever the module's status at the call and however many events it
\* handled before, handle returns Terminating for Stop and for nothing else,
\* and Running for every other event.
C18_TerminatingIffStop ==
    \A m \in Modules : \A i \in 1..Len(returned[m]) :
        /\ returned[m][i].ret = "Terminating" <=> returned[m][i].event.kind = "Stop"
        /\ returned[m][i].event.kind # "Stop" => returned[m][i].ret = "Running"

\* C18, its case: the module returned Running for an event it was given
\* while its status was Terminating, and later Terminating for a Stop it was
\* given while its status was Starting.
C18_Witness ==
    \E i, j \in 1..Len(returned[UnderTest]) :
        /\ i < j
        /\ returned[UnderTest][i].event.kind = "Other"
        /\ returned[UnderTest][i].was = "Terminating"
        /\ returned[UnderTest][i].ret = "Running"
        /\ returned[UnderTest][j].event.kind = "Stop"
        /\ returned[UnderTest][j].was = "Starting"
        /\ returned[UnderTest][j].ret = "Terminating"

\* C19: a step in which a module handles Stop sends nothing on the outbound
\* sender and leaves the module's id, label and local address as they were
\* built.
C19_StopHasNoSideEffect ==
    [][\A m \in Modules :
         (mpc[m] = "handle" /\ mpc'[m] # "handle" /\ mcur[m].kind = "Stop") =>
             /\ events_rx' = events_rx
             /\ published' = published
             /\ ident'[m] = ident[m]
             /\ label(ident'[m]) = label(ident[m])]_vars

\* C19, its case: the module has handled a Stop after another event, with
\* its id and address set and nothing on the outbound stream.
C19_Witness ==
    /\ Len(returned[UnderTest]) >= 2
    /\ returned[UnderTest][Len(returned[UnderTest])].event.kind = "Stop"
    /\ ident[UnderTest].id = UnderTest
    /\ ident[UnderTest].addr \in LocalAddrs
    /\ events_rx = << >>

\* C20: a module's status is Starting from its construction until its
\* handler has returned, and from then on the ActorState the handler
\* returned for the latest event; it is Stopped only once its task has
\* ended.
C20_StatusFollowsHandler ==
    \A m \in Modules :
        mpc[m] # "absent" =>
            /\ returned[m] = << >> => mstatus[m] = "Starting"
            /\ returned[m] # << >> =>
                   mstatus[m] = returned[m][Len(returned[m])].ret
            /\ mstatus[m] = "Stopped" => mpc[m] = "done"

\* C21: a module whose task ended before the stop signal was received is
\* surfaced as a failure: wait does not return Ok for such a run, and the
\* join of such a module is not taken as a success: once wait has joined
\* it, wait has returned that module's error.
C21_EarlyTerminationIsAFailure ==
    /\ (npc = "wait_returned" /\ result.kind = "wait_ok") => endedEarly = {}
    /\ \A m \in endedEarly :
           InLog(m) => (npc = "wait_returned" /\ result = Res("wait_err", m))

Occurs(e, seq) == \E n \in 1..Len(seq) : seq[n] = e

\* How many of the dispatched events the router has finished fanning out.
FannedOut == IF rpc = "fanout" THEN Len(dispatched) - 1 ELSE Len(dispatched)

\* C22: delivery is fan-out within a topic.  What a subscriber is given was
\* published on its own topic and on no other; every event the router has
\* fanned out since a live subscriber registered, on that subscriber's
\* topic, has been given to it; and each subscriber has a queue of its own:
\* a queue loses entries only from its head and only when its own
\* subscriber receives, and a subscriber's receive leaves every other
\* subscriber's queue as it was.
C22_TopicScopedFanOut ==
    /\ [](\A s \in SubNames :
            /\ \A i \in 1..Len(Given(s)) :
                   /\ Occurs(Given(s)[i], published[TopicOf(s)])
                   /\ \A t \in Topics \ {TopicOf(s)} :
                          ~Occurs(Given(s)[i], published[t])
            /\ s \in open =>
                   \A n \in (subscribedAt[s].d + 1)..FannedOut :
                       dispatched[n].topic = TopicOf(s) =>
                           Occurs(dispatched[n].event, Given(s)))
    /\ [][\A s \in SubNames :
            /\ received'[s] = received[s] => IsPrefix(queue[s], queue'[s])
            /\ received'[s] # received[s] =>
                   /\ queue'[s] = Tail(queue[s])
                   /\ \A o \in SubNames \ {s} :
                          queue'[o] = queue[o] /\ received'[o] = received[o]]_vars

\* C22, its case: two subscribers of one topic were both given an event of
\* that topic, one has taken it while it still waits in the other's queue,
\* and an event of another topic has been dispatched and given to neither.
C22_Witness ==
    /\ SubNames = HarnessSubs
    /\ TopicOf("s1") = TopicOf("s2")
    /\ \E i \in 1..Len(received["s1"]) : Occurs(received["s1"][i], queue["s2"])
    /\ \E n \in 1..FannedOut :
           /\ dispatched[n].topic # TopicOf("s1")
           /\ subscribedAt["s1"].d < n
           /\ subscribedAt["s2"].d < n

\* C23: no error of wait is swallowed by run_blocking: it returns Ok only
\* when wait returned Ok, and when wait returned an error what run_blocking
\* returns is an error.
C23_WaitErrorReachesCaller ==
    /\ run_result = "ok" => (npc = "wait_returned" /\ result.kind = "wait_ok")
    /\ (npc = "wait_returned" /\ result.kind = "wait_err" /\ run_result # "none") =>
           run_result = "err"

\* C24: every handle the Orchestrator owns is awaited: wait is through with
\* the joins of the modules, and at the router's, only when every enabled
\* module has been joined; and when wait returns Ok every enabled module's
\* task has been joined and has completed.
C24_EveryOwnedHandleIsAwaited ==
    /\ (npc = "wait_join" /\ AwaitOrder[jidx] = "event_router") =>
           \A m \in enabled : InLog(m)
    /\ (npc = "wait_returned" /\ result.kind = "wait_ok") =>
           \A m \in enabled : InLog(m) /\ outcome[m] # "none"

\* C25: when the control channel is closed with nothing sent on it, wait
\* returns an error and shuts nothing down: it has published no Stop (every
\* published event is a module's), joined no handle and not come to the
\* router's; and a shutdown is under way, or over, only if an event had
\* been sent on the control channel.
C25_ClosedChannelShutsNothingDown ==
    /\ (npc = "wait_recv" /\ control_rx = << >> /\ ctrl_tx = "dropped") =>
           ENABLED WaitRecvClosed
    /\ result = Res("wait_err", "control") =>
           /\ npc = "wait_returned"
           /\ SumLen(published, Topics) = npub
           /\ joinLog = << >>
           /\ jidx = 1
    /\ (ShuttingDown \/ ReturnedAfterSignal) => ctrl_tx = "sent"

\* C25, its case: wait has returned the error of the closed control channel
\* while a module is still running and the dispatch loop has not ended.
C25_Witness ==
    /\ result = Res("wait_err", "control")
    /\ ctrl_tx = "dropped"
    /\ \E m \in enabled : mpc[m] = "recv"
    /\ rpc # "done"

\* C26: wait goes on to publish Stop and to join the modules only when the
\* event it received on the control channel is Stop.
C26_OnlyStopStartsShutdown ==
    [][(npc = "wait_recv" /\ npc' = "wait_publish") =>
          (control_rx # << >> /\ Head(control_rx).kind = "Stop")]_vars

====
